---- MODULE Spec2Model ----
(***************************************************************************)
(* Model of scripts/bin/println.cpp: main() sets std::ios::unitbuf on      *)
(* std::cout once and then loops forever over                              *)
(*     std::cout << "." << std::endl;  sleep_for(microseconds(100));       *)
(* The statement on line 7 is modelled by the steps the stream library     *)
(* takes for it: operator<< (sentry, sputn, ~sentry with the unitbuf       *)
(* flush), then std::endl = put('\n') (sentry, sputc, ~sentry with the     *)
(* unitbuf flush) followed by flush().  The environment is the downstream  *)
(* reader of standard output (which may close it), the inherited SIGPIPE   *)
(* disposition of the platform, and an external kill.                      *)
(***************************************************************************)
EXTENDS Naturals, Sequences, FiniteSets

VARIABLES
    pc,          \* position of the single thread inside main
    status,      \* "running", or how the process ended
    flags,       \* std::cout.flags()
    iostate,     \* std::cout.rdstate(), a set of error bits
    buf,         \* characters held by the stream buffer, not yet written to fd 1
    out,         \* characters delivered to the reader of standard output
    reader,      \* "open" or "closed": the read end of standard output
    sigdisp,     \* inherited disposition of SIGPIPE: "default" or "ignored"
    sleeps,      \* completed sleep_for calls = elapsed time in sleep intervals
    setfCalls,   \* history: number of calls of setf
    writeFailed, \* history: a write on a closed standard output was attempted
    gap,         \* history: sleeps completed since the last delivered terminator
    lastGap      \* history: value of gap when the latest line after the first was delivered

vars == <<pc, status, flags, iostate, buf, out, reader, sigdisp, sleeps,
          setfCalls, writeFailed, gap, lastGap>>

-----------------------------------------------------------------------------
(* Bounds of the model: length of the observation window, in sleep intervals *)

MaxSleeps == 5

-----------------------------------------------------------------------------
(* Program constants and pure helpers *)

\* mutant of Token: a literal of two characters
TokenTwoDots == <<".", ".">>

\* the string literal inserted on line 7
Token == <<".">>

\* the character std::endl puts: os.widen('\n')
Terminator == "\n"

\* std::chrono::microseconds(100), line 9; one unit of the model's clock
SleepMicros == 100

\* default fmtflags of std::cout before main runs (unitbuf is not among them)
DefaultFlags == {"skipws", "dec"}

\* mutant of setf: the call leaves unitbuf clear
setfNothing(fl) == fl

\* std::cout.setf(std::ios::unitbuf), line 5
setf(fl) == fl \cup {"unitbuf"}

\* std::cout.exceptions(): main never sets a mask, so setstate never throws
ExceptionMask == {}

\* basic_ios::good(), what an ostream::sentry tests before any insertion
good(st) == st = {}

\* basic_ios::setstate
setstate(st, bit) == st \cup {bit}

\* streambuf::sputn / sputc: append to the stream buffer
sputn(b, s) == b \o s

\* mutant of LoopCond: a loop with an iteration bound
LoopCondBounded == sleeps < 1

\* while(true), line 6
LoopCond == TRUE

\* the statement the loop body starts with, line 7
LoopHead == "dot_insert"

\* mutant of AfterLine: the loop body has no sleep
AfterLineNoSleep == "dot_insert"

\* the statement that follows line 7 in the loop body: the sleep of line 9
AfterLine == "sleep"

\* what write(2) on standard output does on this platform
WriteResult(rd, disp) ==
    IF rd = "open" THEN "ok"
    ELSE IF disp = "default" THEN "sigpipe"
    ELSE "epipe"

\* what the device receives when the buffer is flushed successfully
Delivered(o, b) == o \o b

\* content of the stream buffer after a flush attempt (kept or dropped, the
\* put area is reset)
AfterFlush(b) == <<>>

RECURSIVE CountLines(_)
\* number of line terminators in a character sequence: the lines a
\* line-by-line reader has read
CountLines(s) ==
    IF s = <<>> THEN 0
    ELSE (IF s[1] = Terminator THEN 1 ELSE 0) + CountLines(Tail(s))

lines == CountLines(out)

\* lower bound, in microseconds, of the time elapsed since the process started
elapsed == sleeps * SleepMicros

RECURSIVE ReadLines(_, _, _)
\* a line-by-line reader: the complete lines of s (terminator stripped) and the
\* characters after the last terminator
ReadLines(s, cur, acc) ==
    IF s = <<>> THEN [complete |-> acc, rest |-> cur]
    ELSE IF Head(s) = Terminator
         THEN ReadLines(Tail(s), <<>>, Append(acc, cur))
         ELSE ReadLines(Tail(s), Append(cur, Head(s)), acc)

read == ReadLines(out, <<>>, <<>>)

-----------------------------------------------------------------------------
Init ==
    /\ pc = "setf"
    /\ status = "running"
    /\ flags = DefaultFlags
    /\ iostate = {}
    /\ buf = <<>>
    /\ out = <<>>
    /\ reader \in {"open", "closed"}
    /\ sigdisp \in {"default", "ignored"}
    /\ sleeps = 0
    /\ setfCalls = 0
    /\ writeFailed = FALSE
    /\ gap = 0
    /\ lastGap = 0

\* mutant of Sync: a flush that writes nothing (output stays in the buffer)
SyncNothing(next) ==
    /\ pc' = next
    /\ UNCHANGED <<status, iostate, buf, out, writeFailed, gap, lastGap>>

\* rdbuf()->pubsync() followed by the caller's setstate(badbit) on failure;
\* the thread continues at `next` unless the write ends the process.
Sync(next) ==
    IF buf = <<>>
    THEN /\ pc' = next
         /\ UNCHANGED <<status, iostate, buf, out, writeFailed, gap, lastGap>>
    ELSE LET r == WriteResult(reader, sigdisp)
             nl == CountLines(buf) > 0
         IN  CASE r = "ok" ->
                   /\ out' = Delivered(out, buf)
                   /\ buf' = AfterFlush(buf)
                   /\ pc' = next
                   /\ gap' = IF nl THEN 0 ELSE gap
                   /\ lastGap' = IF nl /\ lines >= 1 THEN gap ELSE lastGap
                   /\ UNCHANGED <<status, iostate, writeFailed>>
               [] r = "sigpipe" ->
                   /\ status' = "sigpipe"
                   /\ writeFailed' = TRUE
                   /\ UNCHANGED <<pc, iostate, buf, out, gap, lastGap>>
               [] r = "epipe" ->
                   /\ buf' = AfterFlush(buf)
                   /\ iostate' = setstate(iostate, "badbit")
                   /\ writeFailed' = TRUE
                   /\ status' = IF "badbit" \in ExceptionMask THEN "aborted" ELSE status
                   /\ pc' = IF "badbit" \in ExceptionMask THEN pc ELSE next
                   /\ UNCHANGED <<out, gap, lastGap>>

\* mutant of SentryDtor: a sentry that never flushes
SentryDtorNoFlush(next) ==
    /\ pc' = next
    /\ UNCHANGED <<status, iostate, buf, out, writeFailed, gap, lastGap>>

\* ostream::sentry::~sentry(): flush when unitbuf is set and the stream is good
SentryDtor(next) ==
    IF "unitbuf" \in flags /\ good(iostate)
    THEN Sync(next)
    ELSE /\ pc' = next
         /\ UNCHANGED <<status, iostate, buf, out, writeFailed, gap, lastGap>>

\* a formatted or unformatted insertion of s: sentry constructor, then sputn
Insert(s, next) ==
    /\ IF good(iostate)
       THEN buf' = sputn(buf, s) /\ iostate' = iostate
       ELSE buf' = buf /\ iostate' = setstate(iostate, "failbit")
    /\ pc' = next
    /\ UNCHANGED <<status, out, writeFailed, gap, lastGap>>

\* line 5: std::cout.setf(std::ios::unitbuf)
Setf ==
    /\ status = "running" /\ pc = "setf"
    /\ flags' = setf(flags)
    /\ setfCalls' = setfCalls + 1
    /\ pc' = IF LoopCond THEN LoopHead ELSE "return"
    /\ status' = IF LoopCond THEN status ELSE "exited"
    /\ UNCHANGED <<iostate, buf, out, reader, sigdisp, sleeps,
                   writeFailed, gap, lastGap>>

\* line 7: operator<<(std::cout, "."), insertion
DotInsert ==
    /\ status = "running" /\ pc = "dot_insert"
    /\ Insert(Token, "dot_sentry")
    /\ UNCHANGED <<flags, reader, sigdisp, sleeps, setfCalls>>

\* line 7: operator<<(std::cout, "."), destruction of its sentry
DotSentry ==
    /\ status = "running" /\ pc = "dot_sentry"
    /\ SentryDtor("put_insert")
    /\ UNCHANGED <<flags, reader, sigdisp, sleeps, setfCalls>>

\* line 7: std::endl, os.put(os.widen('\n'))
PutInsert ==
    /\ status = "running" /\ pc = "put_insert"
    /\ Insert(<<Terminator>>, "put_sentry")
    /\ UNCHANGED <<flags, reader, sigdisp, sleeps, setfCalls>>

\* line 7: std::endl, destruction of put's sentry
PutSentry ==
    /\ status = "running" /\ pc = "put_sentry"
    /\ SentryDtor("flush")
    /\ UNCHANGED <<flags, reader, sigdisp, sleeps, setfCalls>>

\* line 7: std::endl, os.flush()
Flush ==
    /\ status = "running" /\ pc = "flush"
    /\ IF good(iostate)
       THEN Sync(AfterLine)
       ELSE /\ pc' = AfterLine
            /\ UNCHANGED <<status, iostate, buf, out, writeFailed, gap, lastGap>>
    /\ UNCHANGED <<flags, reader, sigdisp, sleeps, setfCalls>>

\* line 9: std::this_thread::sleep_for returns; line 6: the loop condition.
\* The observation window ends after MaxSleeps intervals of a stream that
\* still writes; once the stream has failed nothing grows any more, the loop
\* goes on and the clock saturates at the end of the window.
Sleep ==
    /\ status = "running" /\ pc = "sleep"
    /\ (sleeps < MaxSleeps \/ ~good(iostate))
    /\ sleeps' = IF sleeps < MaxSleeps THEN sleeps + 1 ELSE sleeps
    /\ gap' = IF gap < MaxSleeps THEN gap + 1 ELSE gap
    /\ pc' = IF LoopCond THEN LoopHead ELSE "return"
    /\ status' = IF LoopCond THEN status ELSE "exited"
    /\ UNCHANGED <<flags, iostate, buf, out, reader, sigdisp, setfCalls,
                   writeFailed, lastGap>>

\* the single thread of main
Program ==
    \/ Setf
    \/ DotInsert
    \/ DotSentry
    \/ PutInsert
    \/ PutSentry
    \/ Flush
    \/ Sleep

\* environment: the process is terminated externally (signal / kill)
Kill ==
    /\ status = "running"
    /\ status' = "killed"
    /\ UNCHANGED <<pc, flags, iostate, buf, out, reader, sigdisp, sleeps,
                   setfCalls, writeFailed, gap, lastGap>>

\* environment: the downstream reader closes its end of standard output
CloseReader ==
    /\ status = "running"
    /\ reader = "open"
    /\ reader' = "closed"
    /\ UNCHANGED <<pc, status, flags, iostate, buf, out, sigdisp, sleeps,
                   setfCalls, writeFailed, gap, lastGap>>

Next ==
    \/ Program
    \/ Kill
    \/ CloseReader

Spec == Init /\ [][Next]_vars

\* the single thread is always scheduled again and every sleep returns
FairSpec == Spec /\ WF_vars(Program)

-----------------------------------------------------------------------------
(* Properties *)

\* the characters standard output carries when whole lines only were written
WholeLinesOnly ==
    /\ read.rest = <<>>
    /\ \A i \in 1..Len(read.complete) : read.complete[i] = <<".">>

\* C1 (as stated): in every reachable state standard output consists only of
\* lines that are exactly "." followed by exactly one line terminator.
C1_OnlyWholeLines == WholeLinesOnly

\* C1 (amended): in every reachable state standard output consists of lines
\* that are exactly "." followed by one line terminator, followed by at most
\* one trailing "." whose terminator is not written yet; a reader that takes
\* the first n lines has n lines, each equal to ".".
C1_WholeLinesThenAtMostDot ==
    /\ \A i \in 1..Len(read.complete) : read.complete[i] = <<".">>
    /\ read.rest \in {<<>>, <<".">>}
    /\ Len(read.complete) = lines

\* five lines were read and the process was then terminated externally
C1_Witness ==
    /\ status = "killed"
    /\ Len(read.complete) = 5

\* C2: main has no internal terminal state: the thread is at line 5 or inside
\* the loop, never at a return or exit, and the process is running unless a
\* signal (external kill, SIGPIPE) ended it.
C2_NoInternalExit ==
    /\ pc \in {"setf", "dot_insert", "dot_sentry", "put_insert", "put_sentry",
               "flush", "sleep"}
    /\ status \in {"running", "killed", "sigpipe"}
    /\ (status = "running" /\ sleeps < MaxSleeps => ENABLED Program)

\* the process is still running at the end of the observation window
C2_Witness ==
    /\ status = "running"
    /\ sleeps = MaxSleeps
    /\ lines = MaxSleeps

\* C3: under fairness of the single thread every written line is eventually
\* followed by another one, unless the process is terminated.
C3_EveryLineFollowedByAnother ==
    \A n \in 1..MaxSleeps :
        (lines = n) ~> (lines > n \/ status # "running")

\* C4: when the thread sleeps the stream buffer is empty and every line
\* written so far has reached the reader; the buffer never holds more than
\* one line.
C4_ImmediateVisibility ==
    /\ pc = "sleep" => buf = <<>>
    /\ (pc = "sleep" /\ good(iostate)) =>
           (read.rest = <<>> /\ lines = sleeps + 1)
    /\ Len(buf) <= 2
    /\ CountLines(buf) <= 1

\* the thread sleeps after its third line has reached the reader
C4_Witness ==
    /\ status = "running"
    /\ pc = "sleep"
    /\ lines = 3
    /\ buf = <<>>

\* C5: once a write on a closed standard output was attempted the process is
\* no longer running.
C5_ClosedPipeTerminates == writeFailed => status # "running"

\* C6: after k sleep intervals at most k + 1 lines were emitted, and at least
\* one line was emitted once one interval has elapsed.
C6_RateBound ==
    /\ lines * SleepMicros <= elapsed + SleepMicros
    /\ elapsed >= SleepMicros => lines >= 1

\* C7: an iteration writes ".", then the terminator, then sleeps once: at the
\* sleep the last line is complete and was delivered after the previous
\* sleep, a lone "." precedes its terminator, and exactly one sleep lies
\* between two consecutive lines.
C7_IterationOrder ==
    /\ (pc = "sleep" /\ good(iostate)) => (read.rest = <<>> /\ gap = 0 /\ lines >= 1)
    /\ \A i \in 1..Len(out) : out[i] = Terminator => (i > 1 /\ out[i-1] = ".")
    /\ lines >= 2 => lastGap = 1
    /\ good(iostate) => gap <= 1

\* two consecutive lines were emitted with a sleep between them
C7_Witness ==
    /\ lines = 2
    /\ lastGap = 1
    /\ sleeps = 1

\* C8: unitbuf is set exactly once, at line 5, before anything is written and
\* before the loop; it stays set, and setf is not called again.
C8_UnitbufSetOnce ==
    /\ pc = "setf" =>
           (setfCalls = 0 /\ out = <<>> /\ buf = <<>> /\ sleeps = 0
            /\ "unitbuf" \notin flags)
    /\ pc # "setf" => (setfCalls = 1 /\ "unitbuf" \in flags)

\* the loop has run several iterations with the flag still set
C8_Witness ==
    /\ sleeps = 3
    /\ lines = 3
    /\ "unitbuf" \in flags

\* C9: the "." reaches the reader before its terminator is inserted: what the
\* reader holds is always a prefix of ("." terminator)*, and when the thread
\* is about to put the terminator of a good stream the "." is already
\* delivered on its own.
C9_DotFlushedBeforeTerminator ==
    /\ \A i \in 1..Len(out) :
           out[i] = (IF i % 2 = 1 THEN "." ELSE Terminator)
    /\ (pc = "put_insert" /\ good(iostate)) =>
           (buf = <<>> /\ Len(out) % 2 = 1)

\* an external kill between the two flushes: the last line has no terminator
C9_Witness ==
    /\ status = "killed"
    /\ lines >= 1
    /\ read.rest = <<".">>
    /\ buf = <<>>

====
